---- MODULE Spec2Model ----
(***************************************************************************)
(* Model of term-image's terminal graphics protocol layer:                 *)
(*   - ITerm2Image.is_supported  (src/term_image/image/iterm2.py)          *)
(*   - KittyImage.is_supported   (src/term_image/image/kitty.py)           *)
(*   - Transmission / ControlData (src/term_image/image/kitty.py)          *)
(* Byte strings and text are sequences of one-character strings; the       *)
(* escape character is the token "ESC".                                    *)
(***************************************************************************)
EXTENDS Integers, Sequences, FiniteSets, TLC

\* ------------------------------------------------------------------ bounds
MaxCalls == 3        \* is_supported calls made in all
MaxInvalidate == 1   \* explicit resets of a class's cached _supported
MaxPayload == 4      \* payload bytes of a Transmission
MaxSize == 5         \* chunk size handed to get_chunks
MaxOps == 4          \* constructions, compress and decompress calls made in all
MaxCells == 2        \* columns and rows of a rendered size
MaxSpecLen == 3      \* characters of a style format specification

\* --------------------------------------------------------- text primitives
ESC == "ESC"
None == "None"

Digits == {"0", "1", "2", "3", "4", "5", "6", "7", "8", "9"}
LowerLetters ==
    {"a", "b", "c", "d", "e", "f", "g", "h", "i", "j", "k", "l", "m",
     "n", "o", "p", "q", "r", "s", "t", "u", "v", "w", "x", "y", "z"}
UpperLetters ==
    {"A", "B", "C", "D", "E", "F", "G", "H", "I", "J", "K", "L", "M",
     "N", "O", "P", "Q", "R", "S", "T", "U", "V", "W", "X", "Y", "Z"}

\* regex class \w
WordChars == Digits \cup LowerLetters \cup UpperLetters \cup {"_"}

LowerOf ==
    [c \in UpperLetters |->
        CASE c = "A" -> "a" [] c = "B" -> "b" [] c = "C" -> "c" [] c = "D" -> "d"
          [] c = "E" -> "e" [] c = "F" -> "f" [] c = "G" -> "g" [] c = "H" -> "h"
          [] c = "I" -> "i" [] c = "J" -> "j" [] c = "K" -> "k" [] c = "L" -> "l"
          [] c = "M" -> "m" [] c = "N" -> "n" [] c = "O" -> "o" [] c = "P" -> "p"
          [] c = "Q" -> "q" [] c = "R" -> "r" [] c = "S" -> "s" [] c = "T" -> "t"
          [] c = "U" -> "u" [] c = "V" -> "v" [] c = "W" -> "w" [] c = "X" -> "x"
          [] c = "Y" -> "y" [] c = "Z" -> "z"]

\* str.lower() / str.casefold() on ASCII text
Lower(s) == [i \in 1..Len(s) |-> IF s[i] \in UpperLetters THEN LowerOf[s[i]] ELSE s[i]]

DigitVal ==
    [c \in Digits |->
        CASE c = "0" -> 0 [] c = "1" -> 1 [] c = "2" -> 2 [] c = "3" -> 3
          [] c = "4" -> 4 [] c = "5" -> 5 [] c = "6" -> 6 [] c = "7" -> 7
          [] c = "8" -> 8 [] c = "9" -> 9]

\* s[a..b] (1-based, inclusive), cut at the end of s like a Python slice
Slice(s, a, b) ==
    LET hi == IF b > Len(s) THEN Len(s) ELSE b
    IN  IF a > hi THEN <<>> ELSE [i \in 1..(hi - a + 1) |-> s[a + i - 1]]

\* bytes.endswith / str.endswith
EndsWith(s, suf) ==
    /\ Len(s) >= Len(suf)
    /\ Slice(s, Len(s) - Len(suf) + 1, Len(s)) = suf

\* s.rpartition(ESC)[0]: the text before the last ESC, empty if there is none
RPartitionHead(s) ==
    LET idx == {i \in 1..Len(s) : s[i] = ESC}
    IN  IF idx = {} THEN <<>>
        ELSE LET last == CHOOSE i \in idx : \A j \in idx : j <= i
             IN  Slice(s, 1, last - 1)

SetMax(S) == CHOOSE x \in S : \A y \in S : y <= x

\* ------------------------------------------------------ version handling
\* str.split("."): the parts between the dots (always at least one part)
RECURSIVE SplitDot(_)
SplitDot(s) ==
    LET dots == {i \in 1..Len(s) : s[i] = "."}
    IN  IF dots = {} THEN <<s>>
        ELSE LET d == CHOOSE i \in dots : \A j \in dots : i <= j
             IN  <<Slice(s, 1, d - 1)>> \o SplitDot(Slice(s, d + 1, Len(s)))

\* str.strip() restricted to the blank
RECURSIVE StripBlanks(_)
StripBlanks(s) ==
    IF s = <<>> THEN s
    ELSE IF s[1] = " " THEN StripBlanks(Tail(s))
    ELSE IF s[Len(s)] = " " THEN StripBlanks(Slice(s, 1, Len(s) - 1))
    ELSE s

RECURSIVE DecimalValue(_)
DecimalValue(s) ==
    IF s = <<>> THEN 0
    ELSE 10 * DecimalValue(Slice(s, 1, Len(s) - 1)) + DigitVal[s[Len(s)]]

\* int(text): blanks around the number are ignored, an optional sign, then
\* one or more decimal digits; anything else is a ValueError (ok = FALSE)
ParseInt(s) ==
    LET t == StripBlanks(s)
        signed == t # <<>> /\ t[1] \in {"-", "+"}
        digits == IF signed THEN Tail(t) ELSE t
    IN  IF digits # <<>> /\ \A i \in 1..Len(digits) : digits[i] \in Digits
        THEN [ok |-> TRUE,
              val |-> IF signed /\ t[1] = "-" THEN 0 - DecimalValue(digits)
                      ELSE DecimalValue(digits)]
        ELSE [ok |-> FALSE, val |-> 0]

\* tuple(map(int, version.split("."))): ok = FALSE stands for the ValueError
VersionTuple(version) ==
    LET parts == SplitDot(version)
    IN  IF \A i \in 1..Len(parts) : ParseInt(parts[i]).ok
        THEN [ok |-> TRUE, val |-> [i \in 1..Len(parts) |-> ParseInt(parts[i]).val]]
        ELSE [ok |-> FALSE, val |-> <<>>]

\* Python's ordering of tuples of integers: a < b
RECURSIVE TupleLess(_, _)
TupleLess(a, b) ==
    IF b = <<>> THEN FALSE
    ELSE IF a = <<>> THEN TRUE
    ELSE IF a[1] # b[1] THEN a[1] < b[1]
    ELSE TupleLess(Tail(a), Tail(b))

\* a >= b
TupleGE(a, b) == ~TupleLess(a, b)

\* minimum versions
KonsoleMin == <<22, 4, 0>>
KittyMin == <<0, 20, 0>>

\* ------------------------------------------------------- regular expressions
NoMatch == [ok |-> FALSE, name |-> <<>>, version |-> <<>>]

DcsHead == <<ESC, "P", ">", "|">>
ST == <<ESC, "\\">>

AllIn(s, a, b, S) == \A i \in a..b : s[i] \in S
NoneIn(s, a, b, S) == \A i \in a..b : s[i] \notin S

\* re.fullmatch(r"\033P>\|(\w+)[( ]([^\033]+)\)?\033\\", s)
\* A candidate <<i, j>>: the name is s[5..i], the separator s[i+1], the version
\* s[i+2..j], then an optional ")" and the terminator, which ends s.  Both
\* quantifiers are greedy: the longest name, then the longest version.
ITermMatch(s) ==
    LET n == Len(s)
        names == {i \in 5..(n - 1) : AllIn(s, 5, i, WordChars) /\ s[i + 1] \in {"(", " "}}
        ends == {j \in 5..n : \/ Slice(s, j + 1, n) = ST
                              \/ Slice(s, j + 1, n) = <<")">> \o ST}
        cands == {p \in names \X ends :
                     /\ p[2] >= p[1] + 2
                     /\ NoneIn(s, p[1] + 2, p[2], {ESC})}
    IN  IF Slice(s, 1, 4) # DcsHead \/ cands = {} THEN NoMatch
        ELSE LET i == SetMax({p[1] : p \in cands})
                 j == SetMax({p[2] : p \in {q \in cands : q[1] = i}})
             IN  [ok |-> TRUE, name |-> Slice(s, 5, i), version |-> Slice(s, i + 2, j)]

\* re.match(r"\033P>\|(\w+)[( ]?([^)\033]+)\)?\033\\", s, re.ASCII)
\* A candidate <<i, k, j>>: the name is s[5..i], the version s[k..j] with
\* k = i+2 when the optional separator s[i+1] is taken and k = i+1 when it is
\* not, then an optional ")" and the terminator; text may follow (re.match).
\* Greedy order: the longest name, the separator taken, the longest version.
KittyMatch(s) ==
    LET n == Len(s)
        names == {i \in 5..n : AllIn(s, 5, i, WordChars)}
        starts == {p \in names \X (5..n) :
                      \/ p[2] = p[1] + 2 /\ p[1] + 1 <= n /\ s[p[1] + 1] \in {"(", " "}
                      \/ p[2] = p[1] + 1}
        ends == {j \in 5..n : \/ Slice(s, j + 1, j + 2) = ST
                              \/ Slice(s, j + 1, j + 3) = <<")">> \o ST}
        cands == {p \in starts \X ends :
                     /\ p[2] >= p[1][2]
                     /\ NoneIn(s, p[1][2], p[2], {")", ESC})}
    IN  IF Slice(s, 1, 4) # DcsHead \/ cands = {} THEN NoMatch
        ELSE LET i == SetMax({p[1][1] : p \in cands})
                 k == SetMax({p[1][2] : p \in {q \in cands : q[1][1] = i}})
                 j == SetMax({p[2] : p \in {q \in cands : q[1][1] = i /\ q[1][2] = k}})
             IN  [ok |-> TRUE, name |-> Slice(s, 5, i), version |-> Slice(s, k, j)]

\* ------------------------------------------------------------ the terminal
\* What a terminal may answer.  An identification (XTVERSION) answer is
\* ESC P > | name sep version close ESC \ ; Silent stands for no answer.
Chars_konsole == <<"k", "o", "n", "s", "o", "l", "e">>
Chars_Konsole == <<"K", "o", "n", "s", "o", "l", "e">>
Chars_kitty == <<"k", "i", "t", "t", "y">>
Chars_iTerm2 == <<"i", "T", "e", "r", "m", "2">>
Chars_iterm2 == <<"i", "t", "e", "r", "m", "2">>
Chars_WezTerm == <<"W", "e", "z", "T", "e", "r", "m">>
Chars_wezterm == <<"w", "e", "z", "t", "e", "r", "m">>
Chars_XTerm == <<"X", "T", "e", "r", "m">>

Silent == [name |-> <<>>, sep |-> <<>>, ver |-> <<>>, close |-> <<>>]
IdForm(name, sep, ver, close) == [name |-> name, sep |-> sep, ver |-> ver, close |-> close]

IdAnswers ==
    { Silent,
      IdForm(Chars_Konsole, <<" ">>, <<"2", "2", ".", "0", "4", ".", "0">>, <<>>),
      IdForm(Chars_konsole, <<"(">>, <<"2", "2", ".", "0", "4", ".", "0">>, <<")">>),
      IdForm(Chars_konsole, <<" ">>, <<"2", "1", ".", "0", "8", ".", "0">>, <<>>),
      IdForm(Chars_konsole, <<" ">>, <<"2", "2", ".", "0", "4", "a">>, <<>>),
      IdForm(Chars_kitty, <<"(">>, <<"0", ".", "2", "1", ".", "2">>, <<")">>),
      IdForm(Chars_kitty, <<"(">>, <<"0", ".", "1", "9", ".", "3">>, <<")">>),
      IdForm(Chars_iTerm2, <<" ">>, <<"3", ".", "4", ".", "1", "6">>, <<>>),
      IdForm(Chars_WezTerm, <<" ">>, <<"2", "0", "2", "2", "-", "b", "d">>, <<>>),
      IdForm(Chars_XTerm, <<"(">>, <<"3", "7", "0">>, <<")">>) }

\* the bytes of an identification answer
IdWire(a) == IF a = Silent THEN <<>> ELSE DcsHead \o a.name \o a.sep \o a.ver \o a.close \o ST

\* answers to the device attributes query ESC [ c
DaVT220 == <<ESC, "[", "?", "6", "2", ";", "c">>
DaVT100 == <<ESC, "[", "?", "1", ";", "2", "c">>
DaAnswers == {<<>>, DaVT220, DaVT100}

\* answers to the kitty graphics query (a=q, i=31)
GfxHead == <<ESC, "_", "G">>
KittyOK == GfxHead \o <<"i", "=", "3", "1", ";", "O", "K">> \o ST
GfxOKOther == GfxHead \o <<"i", "=", "1", "3", ";", "O", "K">> \o ST
GfxError == GfxHead \o <<"i", "=", "3", "1", ";", "E", "I", "N", "V", "A", "L", ":", "c", "m", "d">> \o ST
GfxAnswers == {<<>>, KittyOK, GfxOKOther, GfxError}

NoReplies == [id |-> Silent, da |-> <<>>, gfx |-> <<>>]

\* ---------------------------------------------------------------- the state
x_True == "True"
x_False == "False"
EmptyBytes == "b''"
Pending == "pending"
Free == "free"

ITERM2 == "ITerm2Image"
KITTY == "KittyImage"
Classes == {ITERM2, KITTY}
Threads == {"t1", "t2"}

VARIABLES
    supported,        \* cls._supported of each class: None, True, False or b''
    TERM,             \* ITerm2Image._TERM
    TERM_VERSION,     \* ITerm2Image._TERM_VERSION
    KITTY_VERSION,    \* KittyImage._KITTY_VERSION
    KONSOLE_VERSION,  \* KittyImage._KONSOLE_VERSION
    tty_lock,         \* the thread inside lock_tty, or Free
    tty_in,           \* bytes the terminal sent that nobody has read yet
    pc,               \* where each thread is in is_supported ("idle": outside)
    cls,              \* the class each thread calls is_supported on
    response,         \* each thread's local `response`
    rx,               \* what the terminal answered to this call's queries
    queries,          \* queries each thread's current call wrote
    entry,            \* cls._supported as the call found it on taking the lock
    overlapped,       \* the call waited for an answered probe of its class to finish
    calls,            \* calls made so far
    invalidated,      \* explicit resets of _supported so far
    control,          \* Transmission.control (a ControlData)
    payload,          \* Transmission.payload
    compressed,       \* Transmission._compressed
    size,             \* the size handed to get_chunks
    chunks,           \* what get_chunks yielded
    control_data,     \* what get_control_data returned
    tpc,              \* the step the Transmission scenario is at
    shared,           \* a ControlData object handed to several Transmissions
    transmissions,    \* the Transmission objects built on `shared`
    hist,             \* the last two calls made on them, with the state before each
    ops,              \* calls made on them so far
    request,          \* a render request: image, rendered size, method, style
    rendered,         \* what _render_image computed and returned for it
    rpc,              \* the step the render scenario is at
    fmt_spec,         \* the `spec` handed to _check_style_format_spec
    fmt_result,       \* what the call returned or raised
    fpc               \* the step the format scenario is at

detector_vars ==
    <<supported, TERM, TERM_VERSION, KITTY_VERSION, KONSOLE_VERSION, tty_lock,
      tty_in, pc, cls, response, rx, queries, entry, overlapped, calls,
      invalidated>>
trans_vars == <<control, payload, compressed, size, chunks, control_data, tpc>>
ops_vars == <<shared, transmissions, hist, ops>>
render_vars == <<request, rendered, rpc>>
format_vars == <<fmt_spec, fmt_result, fpc>>
extra_vars == <<ops_vars, render_vars, format_vars>>
vars == <<detector_vars, trans_vars, extra_vars>>

\* ------------------------------------------------------- terminal I/O gate
\* query_terminal / read_tty with a stop condition "the input ends with suf":
\* the number of queued bytes read, i.e. up to the first point where the
\* condition holds, or everything queued when it never holds (time-out).
ReadLen(q, suf) ==
    LET hits == {n \in 1..Len(q) : EndsWith(Slice(q, 1, n), suf)}
    IN  IF hits = {} THEN Len(q) ELSE CHOOSE n \in hits : \A m \in hits : n <= m

ReadUntil(q, suf) == Slice(q, 1, ReadLen(q, suf))
Unread(q, suf) == Slice(q, ReadLen(q, suf) + 1, Len(q))

\* ---------------------------------------------------- is_supported, pieces
\* a guard that tests the truth value: `if not cls._supported:`
NeedsProbe_falsy(s) == s # x_True

\* `if cls._supported is None:`
NeedsProbe(s) == s = None

\* the truth value Python gives a cached _supported
Truthy(s) == s = x_True

ITermStop == <<ESC, "[", "?", "6">>
KittyStop == <<"c">>

ITermVendors == {Chars_iterm2, Chars_konsole, Chars_wezterm}

\* ITerm2Image.is_supported, lines 84-102: the value the branches assign to
\* cls._supported; None when no branch assigns (it stays as it was, None)
ITermResolve(resp) ==
    IF resp = <<>> THEN x_False
    ELSE LET m == ITermMatch(RPartitionHead(resp))
         IN  IF m.ok /\ Lower(m.name) \in ITermVendors
             THEN LET name == Lower(m.name)
                      vt == VersionTuple(Lower(m.version))
                  IN  IF name = Chars_konsole
                      THEN IF ~vt.ok THEN x_False
                           ELSE IF TupleLess(vt.val, KonsoleMin) THEN x_False
                           ELSE x_True
                      ELSE x_True
             ELSE None

\* an empty response handled apart and left unknown
KittyProbeResolve_retry(resp) ==
    IF resp = <<>> THEN None
    ELSE IF RPartitionHead(resp) = KittyOK THEN x_True
    ELSE x_False

\* KittyImage.is_supported, lines 167-169: `response and (... == OK)`
KittyProbeResolve(resp) ==
    IF resp = <<>> THEN EmptyBytes
    ELSE IF RPartitionHead(resp) = KittyOK THEN x_True
    ELSE x_False

\* KittyImage.is_supported, lines 177-185: the version attributes after the
\* identification answer is parsed; raised when int() raises ValueError
KittyVersions(resp, kitty, konsole) ==
    LET m == KittyMatch(resp)
        vt == VersionTuple(m.version)
    IN  IF m.ok /\ Lower(m.name) = Chars_kitty
        THEN [raised |-> ~vt.ok, kitty |-> IF vt.ok THEN vt.val ELSE kitty, konsole |-> konsole]
        ELSE IF m.ok /\ Lower(m.name) = Chars_konsole
        THEN [raised |-> ~vt.ok, kitty |-> kitty, konsole |-> IF vt.ok THEN vt.val ELSE konsole]
        ELSE [raised |-> FALSE, kitty |-> kitty, konsole |-> konsole]

\* KittyImage.is_supported, lines 188-191
KittyVersionResolve(kitty, konsole) ==
    IF TupleGE(kitty, KittyMin) \/ TupleGE(konsole, KonsoleMin) THEN x_True ELSE x_False

\* ---------------------------------------------------- is_supported, steps
InCall(t) == pc[t] # "idle"

\* a thread calls c.is_supported()
Call(t, c) ==
    /\ pc[t] = "idle"
    /\ calls < MaxCalls
    /\ pc' = [pc EXCEPT ![t] = "acquire"]
    /\ cls' = [cls EXCEPT ![t] = c]
    /\ calls' = calls + 1
    /\ UNCHANGED <<supported, TERM, TERM_VERSION, KITTY_VERSION, KONSOLE_VERSION,
                   tty_lock, tty_in, response, rx, queries, entry, overlapped,
                   invalidated>>
    /\ UNCHANGED <<trans_vars, extra_vars>>

\* @lock_tty: the call enters once no other thread holds the lock
LockIsFree(t) == tty_lock = Free

Acquire(t) ==
    /\ pc[t] = "acquire"
    /\ LockIsFree(t)
    /\ tty_lock' = t
    /\ entry' = [entry EXCEPT ![t] = supported[cls[t]]]
    /\ pc' = [pc EXCEPT ![t] = "check"]
    /\ UNCHANGED <<supported, TERM, TERM_VERSION, KITTY_VERSION, KONSOLE_VERSION,
                   tty_in, cls, response, rx, queries, overlapped, calls,
                   invalidated>>
    /\ UNCHANGED <<trans_vars, extra_vars>>

CheckCache(t) ==
    /\ pc[t] = "check"
    /\ pc' = [pc EXCEPT ![t] = IF NeedsProbe(supported[cls[t]]) THEN "query" ELSE "ret"]
    /\ UNCHANGED <<supported, TERM, TERM_VERSION, KITTY_VERSION, KONSOLE_VERSION,
                   tty_lock, tty_in, cls, response, rx, queries, entry,
                   overlapped, calls, invalidated>>
    /\ UNCHANGED <<trans_vars, extra_vars>>

\* query_terminal(b"\033[>q\033[c", ...): the query is written, the terminal
\* queues its answers to the two queries in order, and the input is read until
\* it ends with ESC [ ? 6
ITermQuery(t) ==
    /\ pc[t] = "query" /\ cls[t] = ITERM2
    /\ \E id \in IdAnswers, da \in DaAnswers :
          LET arrived == tty_in \o IdWire(id) \o da
          IN  /\ response' = [response EXCEPT ![t] = ReadUntil(arrived, ITermStop)]
              /\ tty_in' = Unread(arrived, ITermStop)
              /\ rx' = [rx EXCEPT ![t] = [id |-> id, da |-> da, gfx |-> <<>>]]
    /\ queries' = [queries EXCEPT ![t] = @ + 1]
    /\ pc' = [pc EXCEPT ![t] = "drain"]
    /\ UNCHANGED <<supported, TERM, TERM_VERSION, KITTY_VERSION, KONSOLE_VERSION,
                   tty_lock, cls, entry, overlapped, calls, invalidated>>
    /\ UNCHANGED <<trans_vars, extra_vars>>

\* read_tty(): the rest of the response to `CSI c`
ITermDrain(t) ==
    /\ pc[t] = "drain"
    /\ tty_in' = <<>>
    /\ pc' = [pc EXCEPT ![t] = "decide"]
    /\ UNCHANGED <<supported, TERM, TERM_VERSION, KITTY_VERSION, KONSOLE_VERSION,
                   tty_lock, cls, response, rx, queries, entry, overlapped,
                   calls, invalidated>>
    /\ UNCHANGED <<trans_vars, extra_vars>>

ITermDecide(t) ==
    /\ pc[t] = "decide" /\ cls[t] = ITERM2
    /\ LET new == ITermResolve(response[t])
           m == ITermMatch(RPartitionHead(response[t]))
       IN  /\ supported' = [supported EXCEPT ![ITERM2] = IF new = None THEN @ ELSE new]
           /\ TERM' = IF new = x_True THEN Lower(m.name) ELSE TERM
           /\ TERM_VERSION' = IF new = x_True THEN Lower(m.version) ELSE TERM_VERSION
    /\ pc' = [pc EXCEPT ![t] = "ret"]
    /\ UNCHANGED <<KITTY_VERSION, KONSOLE_VERSION, tty_lock, tty_in, cls, response,
                   rx, queries, entry, overlapped, calls, invalidated>>
    /\ UNCHANGED <<trans_vars, extra_vars>>

\* query_terminal(graphics query + "\033[c", ...): written, answered, and read
\* until the input ends with "c"
KittyQuery(t) ==
    /\ pc[t] = "query" /\ cls[t] = KITTY
    /\ \E gfx \in GfxAnswers, da \in DaAnswers :
          LET arrived == tty_in \o gfx \o da
          IN  /\ response' = [response EXCEPT ![t] = ReadUntil(arrived, KittyStop)]
              /\ tty_in' = Unread(arrived, KittyStop)
              /\ rx' = [rx EXCEPT ![t] = [id |-> Silent, da |-> da, gfx |-> gfx]]
    /\ queries' = [queries EXCEPT ![t] = @ + 1]
    /\ pc' = [pc EXCEPT ![t] = "decide"]
    /\ UNCHANGED <<supported, TERM, TERM_VERSION, KITTY_VERSION, KONSOLE_VERSION,
                   tty_lock, cls, entry, overlapped, calls, invalidated>>
    /\ UNCHANGED <<trans_vars, extra_vars>>

KittyDecide(t) ==
    /\ pc[t] = "decide" /\ cls[t] = KITTY
    /\ LET new == KittyProbeResolve(response[t])
       IN  /\ supported' = [supported EXCEPT ![KITTY] = new]
           /\ pc' = [pc EXCEPT ![t] = IF Truthy(new) THEN "query2" ELSE "ret"]
    /\ UNCHANGED <<TERM, TERM_VERSION, KITTY_VERSION, KONSOLE_VERSION, tty_lock,
                   tty_in, cls, response, rx, queries, entry, overlapped,
                   calls, invalidated>>
    /\ UNCHANGED <<trans_vars, extra_vars>>

\* query_terminal(b"\033[>q", ...): written, answered, and read until the
\* input ends with ESC \
KittyQuery2(t) ==
    /\ pc[t] = "query2"
    /\ \E id \in IdAnswers :
          LET arrived == tty_in \o IdWire(id)
          IN  /\ response' = [response EXCEPT ![t] = ReadUntil(arrived, ST)]
              /\ tty_in' = Unread(arrived, ST)
              /\ rx' = [rx EXCEPT ![t].id = id]
    /\ queries' = [queries EXCEPT ![t] = @ + 1]
    /\ pc' = [pc EXCEPT ![t] = "decide2"]
    /\ UNCHANGED <<supported, TERM, TERM_VERSION, KITTY_VERSION, KONSOLE_VERSION,
                   tty_lock, cls, entry, overlapped, calls, invalidated>>
    /\ UNCHANGED <<trans_vars, extra_vars>>

KittyDecide2(t) ==
    /\ pc[t] = "decide2"
    /\ LET v == KittyVersions(response[t], KITTY_VERSION, KONSOLE_VERSION)
       IN  IF v.raised
           THEN /\ pc' = [pc EXCEPT ![t] = "raise"]
                /\ UNCHANGED <<supported, KITTY_VERSION, KONSOLE_VERSION>>
           ELSE /\ KITTY_VERSION' = v.kitty
                /\ KONSOLE_VERSION' = v.konsole
                /\ supported' = [supported EXCEPT
                                    ![KITTY] = KittyVersionResolve(v.kitty, v.konsole)]
                /\ pc' = [pc EXCEPT ![t] = "ret"]
    /\ UNCHANGED <<TERM, TERM_VERSION, tty_lock, tty_in, cls, response, rx,
                   queries, entry, overlapped, calls, invalidated>>
    /\ UNCHANGED <<trans_vars, extra_vars>>

\* the terminal sent something in answer to the queries of t's call
Replied(t) == rx[t].id # Silent \/ rx[t].da # <<>> \/ rx[t].gfx # <<>>

\* the value `return cls._supported` hands back, for a call at its return
Returned(t) == supported[cls[t]]

\* the call is over (pc "ret": it returns; pc "raise": the ValueError leaves
\* it) and lock_tty releases the lock
Leave(t) ==
    /\ tty_lock' = Free
    /\ pc' = [pc EXCEPT ![t] = "idle"]
    /\ cls' = [cls EXCEPT ![t] = ITERM2]
    /\ response' = [response EXCEPT ![t] = <<>>]
    /\ rx' = [rx EXCEPT ![t] = NoReplies]
    /\ queries' = [queries EXCEPT ![t] = 0]
    /\ entry' = [entry EXCEPT ![t] = Pending]
    /\ overlapped' = [u \in Threads |->
                         IF u = t THEN FALSE
                         ELSE overlapped[u] \/ (/\ pc[u] = "acquire"
                                                /\ cls[u] = cls[t]
                                                /\ queries[t] > 0
                                                /\ Replied(t))]
    /\ UNCHANGED <<supported, TERM, TERM_VERSION, KITTY_VERSION, KONSOLE_VERSION,
                   tty_in, calls, invalidated>>
    /\ UNCHANGED <<trans_vars, extra_vars>>

Return(t) ==
    /\ pc[t] = "ret"
    /\ Leave(t)

Raise(t) ==
    /\ pc[t] = "raise"
    /\ Leave(t)

\* a caller resets the cached flag (cls._supported = None) between calls
Invalidate(c) ==
    /\ tty_lock = Free
    /\ invalidated < MaxInvalidate
    /\ supported[c] # None
    /\ supported' = [supported EXCEPT ![c] = None]
    /\ invalidated' = invalidated + 1
    /\ UNCHANGED <<TERM, TERM_VERSION, KITTY_VERSION, KONSOLE_VERSION, tty_lock,
                   tty_in, pc, cls, response, rx, queries, entry, overlapped,
                   calls>>
    /\ UNCHANGED <<trans_vars, extra_vars>>

\* ------------------------------------------------------------ ControlData
\* A field of a ControlData holds Nil (Python's None) or <<value>>.
Nil == <<>>
Some(v) == <<v>>

\* the dataclass fields, in the order they are declared (asdict keeps it)
FieldOrder == <<"a", "f", "t", "s", "v", "z", "o", "C", "c", "r">>
Fields == {FieldOrder[i] : i \in 1..Len(FieldOrder)}
TextFields == {"a", "t", "o"}

a_TRANS_DISP == "T"
f_RGB == 24
f_RGBA == 32
f_PNG == 100
o_ZLIB == "z"
t_DIRECT == "d"
t_FILE == "f"
z_IN_FRONT == 0
C_STAY == 1

\* ControlData(): every field at its default
DefaultControl ==
    [a |-> Some(a_TRANS_DISP), f |-> Some(f_RGBA), t |-> Some(t_DIRECT), s |-> Nil,
     v |-> Nil, z |-> Some(z_IN_FRONT), o |-> Some(o_ZLIB), C |-> Some(C_STAY),
     c |-> Nil, r |-> Nil]

\* ControlData.__post_init__
ControlPostInit(cd) ==
    IF cd.f = Some(f_PNG) THEN [cd EXCEPT !.s = Nil, !.v = Nil] ELSE cd

\* f"{value}" of a field's value
Str(key, value) == IF key \in TextFields THEN value ELSE ToString(value)

\* ",".join(parts)
RECURSIVE JoinComma(_)
JoinComma(parts) ==
    IF parts = <<>> THEN <<>>
    ELSE IF Len(parts) = 1 THEN parts[1]
    ELSE parts[1] \o <<",">> \o JoinComma(Tail(parts))

\* a filter on the truth value: `if value`
Emitted_truthy(cd, key) == cd[key] # Nil /\ (key \notin TextFields => cd[key][1] # 0)

\* `if value is not None`
Emitted(cd, key) == cd[key] # Nil

\* Transmission.get_control_data
GetControlData(cd) ==
    LET keys == SelectSeq(FieldOrder, LAMBDA k : Emitted(cd, k))
    IN  JoinComma([i \in 1..Len(keys) |-> <<keys[i], "=", Str(keys[i], cd[keys[i]][1])>>])

\* ------------------------------------------------------------ base64, zlib
B64Alphabet ==
    <<"A", "B", "C", "D", "E", "F", "G", "H", "I", "J", "K", "L", "M", "N", "O", "P",
      "Q", "R", "S", "T", "U", "V", "W", "X", "Y", "Z", "a", "b", "c", "d", "e", "f",
      "g", "h", "i", "j", "k", "l", "m", "n", "o", "p", "q", "r", "s", "t", "u", "v",
      "w", "x", "y", "z", "0", "1", "2", "3", "4", "5", "6", "7", "8", "9", "+", "/">>

B64Char(n) == B64Alphabet[(n % 64) + 1]

\* standard_b64encode(payload).decode("ascii"): three bytes give four
\* characters, a last group of one or two bytes is padded with "="
RECURSIVE B64Encode(_)
B64Encode(b) ==
    IF b = <<>> THEN <<>>
    ELSE IF Len(b) = 1
    THEN <<B64Char(b[1] \div 4), B64Char((b[1] % 4) * 16), "=", "=">>
    ELSE IF Len(b) = 2
    THEN <<B64Char(b[1] \div 4), B64Char((b[1] % 4) * 16 + b[2] \div 16),
           B64Char((b[2] % 16) * 4), "=">>
    ELSE <<B64Char(b[1] \div 4), B64Char((b[1] % 4) * 16 + b[2] \div 16),
           B64Char((b[2] % 16) * 4 + b[3] \div 64), B64Char(b[3] % 64)>>
         \o B64Encode(Slice(b, 4, Len(b)))

\* zlib.compress / zlib.decompress, kept abstract: the two-byte zlib header in
\* front of the data (compression changes the bytes and can be undone)
ZlibHeader == <<120, 156>>
ZlibCompress(b) == ZlibHeader \o b
ZlibDecompress(b) == Slice(b, Len(ZlibHeader) + 1, Len(b))

\* ------------------------------------------------------------ Transmission
\* compress without the guard on _compressed
CompressStep_unguarded(cd, pay, comp) ==
    IF cd.t = Some(t_DIRECT)
    THEN <<[cd EXCEPT !.o = Some(o_ZLIB)], ZlibCompress(pay), TRUE>>
    ELSE <<cd, pay, comp>>

\* Transmission.compress: <<control, payload, _compressed>> afterwards
CompressStep(cd, pay, comp) ==
    IF cd.t = Some(t_DIRECT) /\ ~comp
    THEN <<[cd EXCEPT !.o = Some(o_ZLIB)], ZlibCompress(pay), TRUE>>
    ELSE <<cd, pay, comp>>

\* Transmission.decompress
DecompressStep(cd, pay, comp) ==
    IF cd.t = Some(t_DIRECT) /\ comp
    THEN <<[cd EXCEPT !.o = Nil], ZlibDecompress(pay), FALSE>>
    ELSE <<cd, pay, comp>>

\* Transmission.__post_init__
TransPostInit(cd, pay) ==
    IF cd.o = Some(o_ZLIB) THEN CompressStep(cd, pay, FALSE) ELSE <<cd, pay, FALSE>>

\* a read that loses the character after the ones it returns
ReadText_skip(text, n) ==
    IF n < 0 THEN <<text, <<>>>>
    ELSE <<Slice(text, 1, n), Slice(text, n + 2, Len(text))>>

\* io.StringIO.read(n) on the text not read yet: <<what is read, what is left>>
ReadText(text, n) ==
    IF n < 0 THEN <<text, <<>>>>
    ELSE <<Slice(text, 1, n), Slice(text, n + 1, Len(text))>>

\* one yielded string: ESC _ G <header> ; <chunk> ESC \
Frame(header, chunk) == GfxHead \o header \o <<";">> \o chunk \o ST

\* the flag with its sense inverted
MoreFlag_inverted(next_chunk) == IF next_chunk # <<>> THEN "0" ELSE "1"

\* f"{bool(next_chunk):d}"
MoreFlag(next_chunk) == IF next_chunk # <<>> THEN "1" ELSE "0"

\* Transmission.get_chunks, lines 397-403: the loop and the last chunk
RECURSIVE ChunkLoop(_, _, _, _)
ChunkLoop(chunk, next_chunk, rest, n) ==
    IF next_chunk # <<>>
    THEN <<Frame(<<"m", "=", "1">>, chunk)>>
         \o ChunkLoop(next_chunk, ReadText(rest, n)[1], ReadText(rest, n)[2], n)
    ELSE IF chunk # <<>> THEN <<Frame(<<"m", "=", "0">>, chunk)>>
    ELSE <<>>

\* Transmission.get_chunks(size): the sequence of strings it yields
GetChunks(cd, pay, n) ==
    LET text == B64Encode(pay)
        r1 == ReadText(text, n)
        r2 == ReadText(r1[2], n)
        r3 == ReadText(r2[2], n)
    IN  <<Frame(GetControlData(cd) \o <<",", "m", "=", MoreFlag(r2[1])>>, r1[1])>>
        \o ChunkLoop(r2[1], r3[1], r3[2], n)

DefaultChunkSize == 4096

\* ---------------------------------------------------- Transmission scenario
\* arguments a ControlData may be built with
ControlArgs ==
    [a : {Nil, Some(a_TRANS_DISP)}, f : {Nil, Some(f_RGBA), Some(f_PNG)},
     t : {Nil, Some(t_DIRECT), Some(t_FILE)}, s : {Nil, Some(3)}, v : {Nil, Some(2)},
     z : {Nil, Some(z_IN_FRONT)}, o : {Nil, Some(o_ZLIB)}, C : {Nil, Some(C_STAY)},
     c : {Nil, Some(4)}, r : {Nil, Some(1)}]

\* the ControlData objects the chunking scenario runs with
ChunkControlArgs ==
    { DefaultControl,
      [DefaultControl EXCEPT !.o = Nil],
      [DefaultControl EXCEPT !.f = Some(f_RGB), !.s = Some(3), !.v = Some(2), !.z = Nil,
                             !.c = Some(4), !.r = Some(1)],
      [a |-> Nil, f |-> Nil, t |-> Some(t_FILE), s |-> Nil, v |-> Nil, z |-> Nil,
       o |-> Nil, C |-> Nil, c |-> Nil, r |-> Nil] }

Bytes == {0, 255}
Payloads == UNION {[1..n -> Bytes] : n \in 0..MaxPayload}
Sizes == (1..MaxSize) \cup {DefaultChunkSize}

TransIdle ==
    /\ control = DefaultControl /\ payload = <<>> /\ compressed = FALSE /\ size = 1
    /\ chunks = <<>> /\ control_data = <<>> /\ tpc = "off"

\* the Transmission objects of the shared-ControlData scenario
Objs == {"T1", "T2"}
Unmade == [made |-> FALSE, payload |-> <<>>, compressed |-> FALSE, ever |-> FALSE]

OpsIdle ==
    /\ shared = DefaultControl
    /\ transmissions = [o \in Objs |-> Unmade]
    /\ hist = <<>>
    /\ ops = 0

\* image modes and the render methods
RGB == "RGB"
RGBA == "RGBA"
LINES == "lines"
WHOLE == "whole"

NoRequest ==
    [proto |-> KITTY, method |-> LINES, ow |-> 1, oh |-> 1, c |-> 1, r |-> 1,
     cell |-> <<1, 2>>, mode |-> RGBA, z |-> Some(z_IN_FRONT), term |-> <<>>]
NotRendered == [out |-> <<>>, width |-> 0, height |-> 0, bands |-> <<>>, left |-> 0]

RenderIdle ==
    /\ request = NoRequest
    /\ rendered = NotRendered
    /\ rpc = "off"

\* no z_index, and the outcome before any call
NoZIndex == [none |-> TRUE, neg |-> FALSE, mag |-> <<>>]
NoResult == [status |-> "none", has_z |-> FALSE, z_index |-> NoZIndex]

FormatIdle ==
    /\ fmt_spec = <<>>
    /\ fmt_result = NoResult
    /\ fpc = "off"

ExtraIdle == OpsIdle /\ RenderIdle /\ FormatIdle

DetectorIdle ==
    /\ supported = [c \in Classes |-> None]
    /\ TERM = <<>>
    /\ TERM_VERSION = <<>>
    /\ KITTY_VERSION = <<>>
    /\ KONSOLE_VERSION = <<>>
    /\ tty_lock = Free
    /\ tty_in = <<>>
    /\ pc = [t \in Threads |-> "idle"]
    /\ cls = [t \in Threads |-> ITERM2]
    /\ response = [t \in Threads |-> <<>>]
    /\ rx = [t \in Threads |-> NoReplies]
    /\ queries = [t \in Threads |-> 0]
    /\ entry = [t \in Threads |-> Pending]
    /\ overlapped = [t \in Threads |-> FALSE]
    /\ calls = 0
    /\ invalidated = 0

\* ControlData(...): the dataclass is built from its arguments
NewControlData ==
    /\ tpc = "args"
    /\ control' = ControlPostInit(control)
    /\ tpc' = "control"
    /\ UNCHANGED <<payload, compressed, size, chunks, control_data>>
    /\ UNCHANGED <<detector_vars, extra_vars>>

\* Transmission(control, payload)
NewTransmission ==
    /\ tpc = "control"
    /\ LET made == TransPostInit(control, payload)
       IN  /\ control' = made[1]
           /\ payload' = made[2]
           /\ compressed' = made[3]
    /\ tpc' = "trans"
    /\ UNCHANGED <<size, chunks, control_data>>
    /\ UNCHANGED <<detector_vars, extra_vars>>

\* trans.get_control_data()
CallGetControlData ==
    /\ tpc = "trans"
    /\ control_data' = GetControlData(control)
    /\ tpc' = "serialized"
    /\ UNCHANGED <<control, payload, compressed, size, chunks>>
    /\ UNCHANGED <<detector_vars, extra_vars>>

\* list(trans.get_chunks(size))
CallGetChunks ==
    /\ tpc = "trans"
    /\ chunks' = GetChunks(control, payload, size)
    /\ tpc' = "chunked"
    /\ UNCHANGED <<control, payload, compressed, size, control_data>>
    /\ UNCHANGED <<detector_vars, extra_vars>>

InitTrans ==
    /\ DetectorIdle
    /\ ExtraIdle
    /\ \/ control \in ControlArgs /\ payload = <<>> /\ size = DefaultChunkSize
       \/ control \in ChunkControlArgs /\ payload \in Payloads /\ size \in Sizes
    /\ compressed = FALSE
    /\ chunks = <<>>
    /\ control_data = <<>>
    /\ tpc = "args"

NextTrans ==
    \/ NewControlData
    \/ NewTransmission
    \/ CallGetControlData
    \/ CallGetChunks

SpecTrans == InitTrans /\ [][NextTrans]_vars

\* ------------------------------------- Transmissions on one ControlData
\* the ControlData objects this scenario starts from (after __post_init__)
OpsControlArgs ==
    {ControlPostInit([DefaultControl EXCEPT !.t = t, !.o = o]) :
        t \in {Nil, Some(t_DIRECT), Some(t_FILE)}, o \in {Nil, Some(o_ZLIB)}}

OpsPayloads == {b \in Payloads : Len(b) <= 1}

\* the last two calls are kept
Push(h, e) == IF Len(h) < 2 THEN Append(h, e) ELSE <<h[2], e>>

\* <<control, payload, _compressed>> of a Transmission on `shared`
Cur(o) == <<shared, transmissions[o].payload, transmissions[o].compressed>>

Called(o, op, after) ==
    /\ ops < MaxOps
    /\ ops' = ops + 1
    /\ shared' = after[1]
    /\ transmissions' =
          [transmissions EXCEPT
              ![o] = [made |-> TRUE, payload |-> after[2], compressed |-> after[3],
                      ever |-> @.ever \/ after[3]]]
    /\ hist' = Push(hist, [obj |-> o, op |-> op, before |-> Cur(o),
                           ever |-> transmissions[o].ever])
    /\ UNCHANGED <<detector_vars, trans_vars, render_vars, format_vars>>

\* Transmission(shared, p)
Construct(o, p) ==
    /\ ~transmissions[o].made
    /\ Called(o, "init", TransPostInit(shared, p))

\* trans.compress()
Compress(o) ==
    /\ transmissions[o].made
    /\ Called(o, "compress",
              CompressStep(shared, transmissions[o].payload, transmissions[o].compressed))

\* trans.decompress()
Decompress(o) ==
    /\ transmissions[o].made
    /\ Called(o, "decompress",
              DecompressStep(shared, transmissions[o].payload, transmissions[o].compressed))

InitOps ==
    /\ DetectorIdle
    /\ TransIdle
    /\ shared \in OpsControlArgs
    /\ transmissions = [o \in Objs |-> Unmade]
    /\ hist = <<>>
    /\ ops = 0
    /\ RenderIdle
    /\ FormatIdle

NextOps ==
    \/ \E o \in Objs, p \in OpsPayloads : Construct(o, p)
    \/ \E o \in Objs : Compress(o)
    \/ \E o \in Objs : Decompress(o)

SpecOps == InitOps /\ [][NextOps]_vars

\* ----------------------------------------------------------------- rendering
\* What _render_image returns is kept as the sequence of the pieces written:
\* [k, header, n] with k the kind of piece, header the control data of an
\* escape sequence and n a count (payload characters, columns or blanks).
Tok(k, header, n) == [k |-> k, header |-> header, n |-> n]

\* f"{_START}a=d,d=c;{_END}"
DeleteTok == Tok("gfx", <<"a", "=", "d", ",", "d", "=", "c">>, 0)
\* "\0337" and "\0338"
SaveTok == Tok("save", <<>>, 0)
RestoreTok == Tok("restore", <<>>, 0)
\* f"\033[{n}C"
RightTok(n) == Tok("right", <<>>, n)
\* " " * n
FillTok(n) == Tok("fill", <<>>, n)
NewlineTok == Tok("nl", <<>>, 0)

\* a clear that does not restore the cursor
ClearToks_norestore(c) == <<DeleteTok, SaveTok, RightTok(c), DeleteTok>>

\* clear = f"{delete}\0337\033[{c}C{delete}\0338"
ClearToks(c) == <<DeleteTok, SaveTok, RightTok(c), DeleteTok, RestoreTok>>

\* len(img.mode); f.RGB // 8, f.RGBA // 8
BytesPerPixel(mode) == IF mode = RGB THEN 3 ELSE 4
\* getattr(f, img.mode)
FormatOf(mode) == IF mode = RGB THEN f_RGB ELSE f_RGBA

\* a pixel buffer of n bytes (a fully transparent image)
Zeros(n) == [i \in 1..n |-> 0]

\* len(standard_b64encode(b)) for len(b) = n
B64Len(n) == 4 * ((n + 2) \div 3)

\* io.BytesIO.read(n) / io.StringIO.read(n) with `left` units unread: how
\* many are read
ReadCount(left, n) == IF n < 0 \/ left <= n THEN left ELSE n

\* f"{bool(next_chunk):d}" for a next chunk of n characters
MoreFlagLen(n) == MoreFlag(IF n > 0 THEN <<"A">> ELSE <<>>)

\* Transmission.get_chunks, lines 397-403, on the lengths of the reads
RECURSIVE ChunkLoopLens(_, _, _, _)
ChunkLoopLens(chunk, next_chunk, left, n) ==
    IF next_chunk > 0
    THEN <<Tok("gfx", <<"m", "=", "1">>, chunk)>>
         \o ChunkLoopLens(next_chunk, ReadCount(left, n), left - ReadCount(left, n), n)
    ELSE IF chunk > 0 THEN <<Tok("gfx", <<"m", "=", "0">>, chunk)>>
    ELSE <<>>

\* Transmission.get_chunked(): the escape sequences of get_chunks(4096), for
\* a payload of `paylen` bytes
GetChunked(cd, paylen) ==
    LET n == DefaultChunkSize
        text == B64Len(paylen)
        c1 == ReadCount(text, n)
        c2 == ReadCount(text - c1, n)
        c3 == ReadCount(text - c1 - c2, n)
    IN  <<Tok("gfx", GetControlData(cd) \o <<",", "m", "=", MoreFlagLen(c2)>>, c1)>>
        \o ChunkLoopLens(c2, c3, text - c1 - c2 - c3, n)

\* KittyImage._get_render_size: rendered_size times get_cell_size() or (1, 2)
GetRenderSize(req) == <<req.c * req.cell[1], req.r * req.cell[2]>>

\* the size chosen without padding the height
KittyPixelSize_nopad(req) ==
    LET render_size == GetRenderSize(req)
    IN  IF render_size[1] * render_size[2] < req.ow * req.oh
        THEN render_size ELSE <<req.ow, req.oh>>

\* KittyImage._render_image, lines 269-283: the pixel size transmitted
KittyPixelSize(req) ==
    LET render_size == GetRenderSize(req)
        px == IF render_size[1] * render_size[2] < req.ow * req.oh
                THEN render_size ELSE <<req.ow, req.oh>>
        extra == px[2] % (IF req.r = 0 THEN 1 ELSE req.r)
    IN  <<px[1], IF extra # 0 THEN px[2] - extra + req.r ELSE px[2]>>

\* Transmission(control_data, band).get_chunked() with the clear in front of
\* it when z is None: the ControlData afterwards and the pieces written
KittyDraw(cd, band) ==
    LET made == TransPostInit(cd, Zeros(band))
    IN  [cd |-> made[1],
         toks |-> (IF made[1].z = Nil THEN ClearToks(made[1].c[1]) ELSE <<>>)
                  \o GetChunked(made[1], Len(made[2]))]

\* KittyImage._render_image_lines, lines 324-329: the rows after the first
RECURSIVE KittyLinesLoop(_, _, _, _)
KittyLinesLoop(cd, left, bytes_per_line, rows) ==
    IF rows = 0 THEN [out |-> <<>>, bands |-> <<>>, left |-> left]
    ELSE LET band == ReadCount(left, bytes_per_line)
             draw == KittyDraw(cd, band)
             rest == KittyLinesLoop(draw.cd, left - band, bytes_per_line, rows - 1)
         IN  [out |-> <<FillTok(cd.c[1]), NewlineTok>> \o draw.toks \o rest.out,
              bands |-> <<band>> \o rest.bands,
              left |-> rest.left]

\* the whole buffer drawn as one single-row image
KittyRenderLines_onerow(rawlen, cdata, height, r_height) ==
    LET draw == KittyDraw([cdata EXCEPT !.v = Some(height), !.r = Some(1)], rawlen)
    IN  [out |-> draw.toks \o <<FillTok(cdata.c[1])>>, bands |-> <<rawlen>>, left |-> 0]

\* KittyImage._render_image_lines
KittyRenderLines(rawlen, cdata, height, r_height) ==
    LET cell_height == height \div r_height
        bytes_per_line == cdata.s[1] * cell_height * (cdata.f[1] \div 8)
        cd == [cdata EXCEPT !.v = Some(cell_height), !.r = Some(1)]
        band == ReadCount(rawlen, bytes_per_line)
        draw == KittyDraw(cd, band)
        rest == KittyLinesLoop(draw.cd, rawlen - band, bytes_per_line, r_height - 1)
    IN  [out |-> draw.toks \o rest.out \o <<FillTok(cd.c[1])>>,
         bands |-> <<band>> \o rest.bands,
         left |-> rest.left]

\* (fill + "\n") * n
RECURSIVE FillLines(_, _)
FillLines(c, n) == IF n <= 0 THEN <<>> ELSE <<FillTok(c), NewlineTok>> \o FillLines(c, n - 1)

\* the whole buffer drawn with a single-row extent declared
KittyRenderWhole_onerow(rawlen, cdata, height, r_height) ==
    LET cd == [cdata EXCEPT !.v = Some(height), !.r = Some(1)]
        draw == KittyDraw(cd, rawlen)
    IN  [out |-> draw.toks \o FillLines(cd.c[1], r_height - 1) \o <<FillTok(cd.c[1])>>,
         bands |-> <<rawlen>>,
         left |-> 0]

\* KittyImage._render_image_whole
KittyRenderWhole(rawlen, cdata, height, r_height) ==
    LET cd == [cdata EXCEPT !.v = Some(height), !.r = Some(r_height)]
        draw == KittyDraw(cd, rawlen)
    IN  [out |-> draw.toks \o FillLines(cd.c[1], r_height - 1) \o <<FillTok(cd.c[1])>>,
         bands |-> <<rawlen>>,
         left |-> 0]

\* KittyImage._render_image
KittyRenderImage(req) ==
    LET px == KittyPixelSize(req)
        rawlen == px[1] * px[2] * BytesPerPixel(req.mode)
        cd == ControlPostInit([DefaultControl EXCEPT !.f = Some(FormatOf(req.mode)),
                                  !.s = Some(px[1]), !.c = Some(req.c), !.z = req.z])
        res == IF req.method = LINES
               THEN KittyRenderLines(rawlen, cd, px[2], req.r)
               ELSE KittyRenderWhole(rawlen, cd, px[2], req.r)
    IN  [out |-> res.out, width |-> px[1], height |-> px[2],
         bands |-> res.bands, left |-> res.left]

\* the requests rendered
OrigWidths == {1, 3, 64}
OrigHeights == {1, 5, 64}
CellSizes == {<<1, 2>>, <<10, 20>>}
ZIndexes == {Nil, Some(z_IN_FRONT), Some(-1)}

KittyRequests ==
    [proto : {KITTY}, method : {LINES, WHOLE}, ow : OrigWidths, oh : OrigHeights,
     c : 1..MaxCells, r : 1..MaxCells, cell : CellSizes, mode : {RGB, RGBA},
     z : ZIndexes, term : {<<>>}]

\* image.draw() / str(image) on a KittyImage
RenderKitty ==
    /\ rpc = "request" /\ request.proto = KITTY
    /\ rendered' = KittyRenderImage(request)
    /\ rpc' = "rendered"
    /\ UNCHANGED <<request, detector_vars, trans_vars, ops_vars, format_vars>>

\* ITerm2Image._get_minimal_render_size: the pixel size transmitted
ITermMinimalRenderSize(req) == KittyPixelSize(req)

\* compressed_image.tell() after img.save(compressed_image, format): the
\* length of the PNG/JPEG file, kept abstract (a signature, then the data)
ContainerLen(n) == n + 8

\* "size=<n>;width=<c>;height=<h>;preserveAspectRatio=0;inline=1" and
\* ";doNotMoveCursor=1" on konsole
ITermControlData(filelen, c, h, is_on_konsole) ==
    <<"size", "=", ToString(filelen), ";", "width", "=", ToString(c), ";",
      "height", "=", ToString(h), ";", "preserveAspectRatio", "=", "0", ";",
      "inline", "=", "1">>
    \o (IF is_on_konsole THEN <<";", "doNotMoveCursor", "=", "1">> ELSE <<>>)

\* "\033]1337;File=" control data ":" base64 of the file, ST
FileTok(filelen, c, h, is_on_konsole) ==
    Tok("file", ITermControlData(filelen, c, h, is_on_konsole), B64Len(filelen))

\* ITerm2Image._render_image, lines 173-188: the rows from `line` on
RECURSIVE ITermLinesLoop(_, _, _, _, _, _)
ITermLinesLoop(line, r_height, left, bytes_per_line, r_width, is_on_konsole) ==
    IF line > r_height THEN [out |-> <<>>, bands |-> <<>>, left |-> left]
    ELSE LET band == ReadCount(left, bytes_per_line)
             rest == ITermLinesLoop(line + 1, r_height, left - band, bytes_per_line,
                                    r_width, is_on_konsole)
         IN  [out |-> <<FileTok(ContainerLen(band), r_width, 1, is_on_konsole)>>
                      \o (IF is_on_konsole THEN <<RightTok(r_width)>> ELSE <<>>)
                      \o (IF line < r_height THEN <<NewlineTok>> ELSE <<>>)
                      \o rest.out,
              bands |-> <<band>> \o rest.bands,
              left |-> rest.left]

\* only the newlines, without the jumps
JumpLines_newlines(c, n) == [i \in 1..(IF n <= 0 THEN 0 ELSE n) |-> NewlineTok]

\* f"{jump_right}\n" * n
RECURSIVE JumpLines(_, _)
JumpLines(c, n) == IF n <= 0 THEN <<>> ELSE <<RightTok(c), NewlineTok>> \o JumpLines(c, n - 1)

\* ITerm2Image._render_image
ITermRenderImage(req) ==
    LET px == ITermMinimalRenderSize(req)
        rawlen == px[1] * px[2] * BytesPerPixel(req.mode)
        is_on_konsole == req.term = Chars_konsole
        cell_height == px[2] \div req.r
        bytes_per_line == px[1] * cell_height * BytesPerPixel(req.mode)
        res == IF req.method = LINES
               THEN ITermLinesLoop(1, req.r, rawlen, bytes_per_line, req.c, is_on_konsole)
               ELSE [out |-> <<FileTok(ContainerLen(rawlen), req.c, req.r, is_on_konsole)>>
                             \o (IF is_on_konsole THEN JumpLines(req.c, req.r - 1) ELSE <<>>)
                             \o (IF is_on_konsole THEN <<RightTok(req.c)>> ELSE <<>>),
                     bands |-> <<rawlen>>,
                     left |-> 0]
    IN  [out |-> res.out, width |-> px[1], height |-> px[2],
         bands |-> res.bands, left |-> res.left]

ITermRequests ==
    [proto : {ITERM2}, method : {LINES, WHOLE}, ow : OrigWidths, oh : OrigHeights,
     c : 1..MaxCells, r : 1..MaxCells, cell : CellSizes, mode : {RGB, RGBA},
     z : {Some(z_IN_FRONT)}, term : ITermVendors]

\* image.draw() / str(image) on an ITerm2Image
RenderITerm ==
    /\ rpc = "request" /\ request.proto = ITERM2
    /\ rendered' = ITermRenderImage(request)
    /\ rpc' = "rendered"
    /\ UNCHANGED <<request, detector_vars, trans_vars, ops_vars, format_vars>>

InitRender ==
    /\ DetectorIdle
    /\ TransIdle
    /\ OpsIdle
    /\ FormatIdle
    /\ request \in KittyRequests \cup ITermRequests
    /\ rendered = NotRendered
    /\ rpc = "request"

NextRender ==
    \/ RenderKitty
    \/ RenderITerm

SpecRender == InitRender /\ [][NextRender]_vars

\* ------------------------------------------------- style format specification
\* FORMAT_SPEC.fullmatch(spec), FORMAT_SPEC = r"([^z]*)(z(-?\d+)?)?(.*)" with
\* re.ASCII: parent is the text before the first "z"; the z token is that
\* "z" with the longest run of digits after it, a "-" in front of them
\* included; invalid is what is left.  "." matches no newline, so there is no
\* match (ok = FALSE) when a newline comes after the first "z".
DigitRun(s, from) ==
    LET stops == {i \in from..Len(s) : s[i] \notin Digits}
    IN  IF stops = {} THEN Len(s) - from + 1
        ELSE (CHOOSE i \in stops : \A j \in stops : i <= j) - from

FormatSpecMatch(spec) ==
    LET zs == {i \in 1..Len(spec) : spec[i] = "z"}
        z1 == IF zs = {} THEN Len(spec) + 1 ELSE CHOOSE i \in zs : \A j \in zs : i <= j
        signed == z1 + 1 <= Len(spec) /\ spec[z1 + 1] = "-"
        from == IF signed THEN z1 + 2 ELSE z1 + 1
        run == IF zs = {} THEN 0 ELSE DigitRun(spec, from)
        zend == IF zs = {} THEN z1 - 1 ELSE IF run > 0 THEN from + run - 1 ELSE z1
    IN  [ok |-> \A i \in (z1 + 1)..Len(spec) : spec[i] # "\n",
         parent |-> Slice(spec, 1, z1 - 1),
         z |-> Slice(spec, z1, zend),
         z_index |-> IF run > 0 THEN Some(Slice(spec, z1 + 1, zend)) ELSE Nil,
         invalid |-> Slice(spec, zend + 1, Len(spec))]

\* leading zeros dropped, one digit kept
RECURSIVE StripZeros(_)
StripZeros(ds) == IF Len(ds) > 1 /\ ds[1] = "0" THEN StripZeros(Tail(ds)) ELSE ds

\* int(text) for an optional "-" and decimal digits, of any size: the sign
\* and the digits of the magnitude
BigInt(text) ==
    LET neg == text[1] = "-"
        mag == StripZeros(IF neg THEN Tail(text) ELSE text)
    IN  [none |-> FALSE, neg |-> neg /\ mag # <<"0">>, mag |-> mag]

\* a < b for magnitudes written in digits
MagLess(a, b) ==
    \/ Len(a) < Len(b)
    \/ /\ Len(a) = Len(b)
       /\ \E i \in 1..Len(a) :
             /\ DigitVal[a[i]] < DigitVal[b[i]]
             /\ \A j \in 1..(i - 1) : a[j] = b[j]

\* 2 ** 31
Two31 == <<"2", "1", "4", "7", "4", "8", "3", "6", "4", "8">>

\* _style_args["z_index"]: x is None or -(2**31) <= x < 2**31
ZIndexInRange(x) ==
    \/ x.none
    \/ ~x.neg /\ MagLess(x.mag, Two31)
    \/ x.neg /\ (MagLess(x.mag, Two31) \/ x.mag = Two31)

\* super()._check_style_format_spec(parent, original): the generic part
\* holds at most a render method letter
ParentAccepted(parent) == parent \in {<<"L">>, <<"W">>}

\* _check_style_args(args): every check of _style_args must hold
CheckStyleArgs(has_z, z_index) ==
    IF has_z /\ ~ZIndexInRange(z_index)
    THEN [status |-> "style_arg_error", has_z |-> FALSE, z_index |-> NoZIndex]
    ELSE [status |-> "ok", has_z |-> has_z, z_index |-> z_index]

\* KittyImage._check_style_format_spec
CheckStyleFormatSpec(spec) ==
    LET m == FormatSpecMatch(spec)
    IN  IF ~m.ok
        THEN [status |-> "attribute_error", has_z |-> FALSE, z_index |-> NoZIndex]
        ELSE IF m.invalid # <<>> \/ (m.parent # <<>> /\ ~ParentAccepted(m.parent))
        THEN [status |-> "format_error", has_z |-> FALSE, z_index |-> NoZIndex]
        ELSE IF m.z = <<>> THEN CheckStyleArgs(FALSE, NoZIndex)
        ELSE CheckStyleArgs(TRUE, IF m.z_index = Nil THEN NoZIndex
                                  ELSE BigInt(m.z_index[1]))

\* the specifications handed in
SpecChars == {"z", "-", "0", "7", "W", "\n"}
ShortSpecs == UNION {[1..n -> SpecChars] : n \in 0..MaxSpecLen}
EdgeSpecs ==
    { <<"z">> \o Two31,
      <<"z", "-">> \o Two31,
      <<"z", "2", "1", "4", "7", "4", "8", "3", "6", "4", "7">>,
      <<"z", "-", "2", "1", "4", "7", "4", "8", "3", "6", "4", "9">>,
      <<"W", "z", "0", "0", "7">> }

\* cls._check_style_format_spec(spec, original)
CallCheckFormat ==
    /\ fpc = "spec"
    /\ fmt_result' = CheckStyleFormatSpec(fmt_spec)
    /\ fpc' = "checked"
    /\ UNCHANGED <<fmt_spec, detector_vars, trans_vars, ops_vars, render_vars>>

InitFormat ==
    /\ DetectorIdle
    /\ TransIdle
    /\ OpsIdle
    /\ RenderIdle
    /\ fmt_spec \in ShortSpecs \cup EdgeSpecs
    /\ fmt_result = NoResult
    /\ fpc = "spec"

NextFormat == CallCheckFormat

SpecFormat == InitFormat /\ [][NextFormat]_vars

Init ==
    /\ DetectorIdle
    /\ TransIdle
    /\ ExtraIdle

Next ==
    \/ \E t \in Threads, c \in Classes : Call(t, c)
    \/ \E t \in Threads : Acquire(t)
    \/ \E t \in Threads : CheckCache(t)
    \/ \E t \in Threads : ITermQuery(t)
    \/ \E t \in Threads : ITermDrain(t)
    \/ \E t \in Threads : ITermDecide(t)
    \/ \E t \in Threads : KittyQuery(t)
    \/ \E t \in Threads : KittyDecide(t)
    \/ \E t \in Threads : KittyQuery2(t)
    \/ \E t \in Threads : KittyDecide2(t)
    \/ \E t \in Threads : Return(t)
    \/ \E t \in Threads : Raise(t)
    \/ \E c \in Classes : Invalidate(c)

Spec == Init /\ [][Next]_vars

\* =================================================================== claims
Inside == {"check", "query", "drain", "decide", "query2", "decide2", "ret", "raise"}

\* the version text the terminal sent is dot-separated integers, at least min
SentVersionAtLeast(id, min) ==
    /\ VersionTuple(id.ver).ok
    /\ TupleGE(VersionTuple(id.ver).val, min)

SentName(id) == Lower(id.name)

\* C1: a call that finds _supported already resolved to True or False when it
\* enters (no reset since the call that resolved it) returns that same value
\* and writes no query to the terminal.
C1_ResolvedIsNotRequeried ==
    \A t \in Threads :
        pc[t] = "ret" /\ entry[t] \in {x_True, x_False}
            => Returned(t) = entry[t] /\ queries[t] = 0

C1_Witness ==
    \E t \in Threads : pc[t] = "ret" /\ entry[t] \in {x_True, x_False} /\ calls >= 2

\* C2: whenever the terminal sent any reply to the detection query, the call
\* ends with _supported resolved to True or False; a reply to the device
\* attributes query alone, or an identification naming a vendor outside the
\* supported set, resolves to False.
C2_DaAlone(t) == rx[t].da # <<>> /\ rx[t].id = Silent /\ rx[t].gfx = <<>>

C2_UnknownVendor(t) ==
    /\ rx[t].id # Silent
    /\ SentName(rx[t].id) \notin
          (IF cls[t] = ITERM2 THEN ITermVendors ELSE {Chars_kitty, Chars_konsole})

C2_AnyReplyResolves ==
    \A t \in Threads :
        pc[t] = "ret" /\ queries[t] > 0 /\ Replied(t)
            => /\ supported[cls[t]] \in {x_True, x_False}
               /\ (C2_DaAlone(t) \/ C2_UnknownVendor(t)) => supported[cls[t]] = x_False

\* C3 (as claimed): a call whose probe got no reply at all reports
\* unsupported and leaves _supported unknown, so that the next call probes
\* again.
C3_TimeoutNotCached ==
    \A t \in Threads :
        pc[t] = "ret" /\ queries[t] = 1 /\ response[t] = <<>>
            => ~Truthy(Returned(t)) /\ NeedsProbe(supported[cls[t]])

\* C3 (amended): a call whose probe read nothing reports unsupported and the
\* negative result is cached (False, or the empty response itself for the
\* kitty protocol); a call that finds such a cached negative returns it and
\* writes no query.
C3_TimeoutIsCached ==
    \A t \in Threads :
        /\ pc[t] = "ret" /\ queries[t] = 1 /\ response[t] = <<>>
              => supported[cls[t]] \in {x_False, EmptyBytes}
        /\ pc[t] = "ret" /\ entry[t] \in {x_False, EmptyBytes}
              => Returned(t) = entry[t] /\ queries[t] = 0

C3_Witness ==
    \E t \in Threads : pc[t] = "ret" /\ entry[t] = EmptyBytes /\ cls[t] = KITTY

\* C4: is_supported never raises; an identification from a vendor held to a
\* minimum version (konsole for ITerm2Image; kitty and konsole for KittyImage)
\* whose version is not dot-separated integers makes the call return
\* unsupported.
C4_VersionChecked(t) ==
    /\ rx[t].id # Silent
    /\ SentName(rx[t].id) \in
          (IF cls[t] = ITERM2 THEN {Chars_konsole} ELSE {Chars_kitty, Chars_konsole})
    /\ ~VersionTuple(rx[t].id.ver).ok

C4_NeverRaises ==
    \A t \in Threads :
        /\ pc[t] # "raise"
        /\ pc[t] = "ret" /\ queries[t] > 0 /\ C4_VersionChecked(t)
              => ~Truthy(Returned(t))

\* C5: ITerm2Image, the device attributes query answered: an identification
\* naming konsole with a dot-separated integer version is supported exactly
\* when the version is at least 22.4.0; one naming iterm2 or wezterm is
\* supported whatever the version.
C5_KonsoleFloor ==
    \A t \in Threads :
        pc[t] = "ret" /\ cls[t] = ITERM2 /\ queries[t] > 0 /\ rx[t].da # <<>>
        /\ rx[t].id # Silent
            => /\ SentName(rx[t].id) = Chars_konsole /\ VersionTuple(rx[t].id.ver).ok
                  => (Truthy(Returned(t)) <=> SentVersionAtLeast(rx[t].id, KonsoleMin))
               /\ SentName(rx[t].id) \in {Chars_iterm2, Chars_wezterm}
                  => Truthy(Returned(t))

\* C6: KittyImage, the device attributes query answered: the call returns
\* supported exactly when the graphics answer is the OK reply for image 31
\* and the identification names kitty >= 0.20.0 or konsole >= 22.4.0; in
\* every other case it returns unsupported.
C6_Qualifies(t) ==
    /\ rx[t].gfx = KittyOK
    /\ \/ SentName(rx[t].id) = Chars_kitty /\ SentVersionAtLeast(rx[t].id, KittyMin)
       \/ SentName(rx[t].id) = Chars_konsole /\ SentVersionAtLeast(rx[t].id, KonsoleMin)

C6_KittySupportedExactly ==
    \A t \in Threads :
        pc[t] \in {"ret", "raise"} /\ cls[t] = KITTY /\ queries[t] > 0 /\ rx[t].da # <<>>
            => /\ pc[t] = "ret"
               /\ Truthy(Returned(t)) <=> C6_Qualifies(t)

\* C7: calls of different threads never run inside is_supported together,
\* the thread inside holds the tty lock, and a call that waited for an
\* answered probe of its class (no reset since) writes no probe of its own.
C7_OneProbeUnderLock ==
    /\ \A t, u \in Threads : t # u => ~(pc[t] \in Inside /\ pc[u] \in Inside)
    /\ \A t \in Threads : pc[t] \in Inside => tty_lock = t
    /\ \A t \in Threads :
          pc[t] \in Inside /\ overlapped[t] /\ invalidated = 0 => queries[t] = 0

\* C8: when a call that probed the terminal is over, none of the bytes the
\* terminal sent is left unread.
C8_NothingLeftQueued ==
    \A t \in Threads : pc[t] \in {"ret", "raise"} /\ queries[t] > 0 => tty_in = <<>>

\* C9: get_control_data gives exactly the fields that are not None, each
\* once as key=value, joined by commas, in the order a, f, t, s, v, z, o, C,
\* c, r; a field that is None does not appear.
PresentKeys(cd) == {k \in Fields : cd[k] # Nil}
KeyIndex(k) == CHOOSE i \in 1..Len(FieldOrder) : FieldOrder[i] = k

C9_ControlDataSerialized ==
    tpc = "serialized" =>
        LET out == control_data
            n == Cardinality(PresentKeys(control))
        IN  /\ Len(out) = IF n = 0 THEN 0 ELSE 4 * n - 1
            /\ \A i \in 1..n :
                  /\ out[4 * i - 3] \in PresentKeys(control)
                  /\ out[4 * i - 2] = "="
                  /\ out[4 * i - 1] = Str(out[4 * i - 3], control[out[4 * i - 3]][1])
                  /\ i < n => out[4 * i] = ","
            /\ \A i, j \in 1..n :
                  i < j => KeyIndex(out[4 * i - 3]) < KeyIndex(out[4 * j - 3])
            /\ \A k \in Fields :
                  control[k] = Nil => \A i \in 1..n : out[4 * i - 3] # k

C9_Witness ==
    /\ tpc = "serialized"
    /\ control.a # Nil /\ control.s = Nil /\ control.z = Some(0) /\ control.o = Nil
    /\ control.r # Nil

\* C10: get_chunks: the first chunk carries the whole control data followed
\* by m=1 exactly when a further chunk follows and m=0 otherwise; every chunk
\* between the first and the last carries only m=1; with more than one chunk
\* the last carries only m=0; an encoded payload that fits in one slice gives
\* exactly one chunk.
FirstSemi(ch) == CHOOSE i \in 1..Len(ch) : ch[i] = ";" /\ \A j \in 1..(i - 1) : ch[j] # ";"
WellFramed(ch) ==
    /\ Slice(ch, 1, 3) = GfxHead
    /\ Slice(ch, Len(ch) - 1, Len(ch)) = ST
    /\ \E i \in 4..(Len(ch) - 2) : ch[i] = ";"
ChunkHeader(ch) == Slice(ch, 4, FirstSemi(ch) - 1)
ChunkData(ch) == Slice(ch, FirstSemi(ch) + 1, Len(ch) - 2)

C10_ChunkFlags ==
    tpc = "chunked" =>
        LET n == Len(chunks)
        IN  /\ n >= 1
            /\ \A i \in 1..n : WellFramed(chunks[i])
            /\ ChunkHeader(chunks[1]) =
                  GetControlData(control) \o <<",", "m", "=", IF n > 1 THEN "1" ELSE "0">>
            /\ \A i \in 2..(n - 1) : ChunkHeader(chunks[i]) = <<"m", "=", "1">>
            /\ n > 1 => ChunkHeader(chunks[n]) = <<"m", "=", "0">>
            /\ (size < 0 \/ Len(B64Encode(payload)) <= size) => n = 1

C10_Witness ==
    /\ tpc = "chunked"
    /\ Len(chunks) >= 3
    /\ ChunkHeader(chunks[2]) = <<"m", "=", "1">>
    /\ ChunkHeader(chunks[Len(chunks)]) = <<"m", "=", "0">>

\* C11: get_chunks partitions the base64 text: the payload parts of the
\* chunks, concatenated in order, are the whole encoded text; every chunk but
\* the last holds exactly `size` characters; there are max(1, ceil(len/size))
\* chunks; when the encoded length is a positive multiple of the size the
\* last chunk is not empty and carries m=0.
RECURSIVE ConcatData(_)
ConcatData(chs) ==
    IF chs = <<>> THEN <<>> ELSE ChunkData(Head(chs)) \o ConcatData(Tail(chs))

ChunkFlag(ch) == ChunkHeader(ch)[Len(ChunkHeader(ch))]
CeilDiv(a, b) == (a + b - 1) \div b

C11_ChunksPartition ==
    tpc = "chunked" =>
        LET text == B64Encode(payload)
            n == Len(chunks)
        IN  /\ ConcatData(chunks) = text
            /\ \A i \in 1..(n - 1) : Len(ChunkData(chunks[i])) = size
            /\ n = IF text = <<>> THEN 1 ELSE CeilDiv(Len(text), size)
            /\ (text # <<>> /\ Len(text) % size = 0)
                  => ChunkData(chunks[n]) # <<>> /\ ChunkFlag(chunks[n]) = "0"

C11_Witness ==
    /\ tpc = "chunked"
    /\ Len(chunks) >= 2
    /\ Len(B64Encode(payload)) = Len(chunks) * size
    /\ ChunkFlag(chunks[Len(chunks)]) = "0"

\* C12: compress changes the payload only when the medium is direct and the
\* transmission is not compressed yet; compress twice in a row is compress
\* once, and so is decompress; decompress on a transmission that was never
\* compressed changes nothing; on a medium that is not direct neither call
\* changes the payload or the control data.
LastCall == hist[Len(hist)]
Unchanged(e) == Cur(e.obj) = e.before

C12_CompressIdempotent ==
    /\ Len(hist) >= 1 /\ LastCall.op = "compress" /\ Cur(LastCall.obj)[2] # LastCall.before[2]
          => LastCall.before[1].t = Some(t_DIRECT) /\ ~LastCall.before[3]
    /\ Len(hist) = 2 /\ hist[1].obj = hist[2].obj /\ hist[1].op = hist[2].op
       /\ hist[2].op \in {"compress", "decompress"}
          => Unchanged(hist[2])
    /\ Len(hist) >= 1 /\ LastCall.op = "decompress" /\ ~LastCall.ever
          => Unchanged(LastCall)
    /\ Len(hist) >= 1 /\ LastCall.op \in {"compress", "decompress"}
       /\ LastCall.before[1].t # Some(t_DIRECT)
          => Unchanged(LastCall)

C12_Witness ==
    /\ Len(hist) = 2
    /\ hist[1].obj = hist[2].obj
    /\ hist[1].op = "compress" /\ hist[2].op = "compress"
    /\ hist[2].before[2] # hist[1].before[2]

\* C20: after any constructions, compress and decompress calls, for every
\* medium and with Transmissions sharing one ControlData, the control data a
\* transmission emits holds o=z exactly when its payload is zlib-compressed.
IsZlib(b) == Len(b) >= Len(ZlibHeader) /\ Slice(b, 1, Len(ZlibHeader)) = ZlibHeader

EmitsZ(cd) ==
    LET out == GetControlData(cd)
    IN  \E i \in 1..(Len(out) - 2) : Slice(out, i, i + 2) = <<"o", "=", "z">>

C20_FlagMatchesPayload ==
    \A o \in Objs :
        transmissions[o].made => (EmitsZ(shared) <=> IsZlib(transmissions[o].payload))

\* ------------------------------------------------------ claims on rendering
\* an escape sequence that starts an image transmission
IsImage(tok) ==
    \/ tok.k = "file"
    \/ tok.k = "gfx" /\ Len(tok.header) >= 3 /\ Slice(tok.header, 1, 3) = <<"a", "=", "T">>

\* an escape sequence that carries image data or starts a transmission
IsDataSeq(tok) == tok.k = "file" \/ (tok.k = "gfx" /\ tok # DeleteTok)

\* the control data holds key=val as one of its items
Declares(tok, key, val) ==
    \E i \in 1..(Len(tok.header) - 2) :
        /\ tok.header[i] = key /\ tok.header[i + 1] = "=" /\ tok.header[i + 2] = val
        /\ (i = 1 \/ tok.header[i - 1] \in {",", ";"})
        /\ (i + 2 = Len(tok.header) \/ tok.header[i + 3] \in {",", ";"})

HasKey(tok, key) ==
    \E i \in 1..(Len(tok.header) - 1) :
        /\ tok.header[i] = key /\ tok.header[i + 1] = "="
        /\ (i = 1 \/ tok.header[i - 1] \in {",", ";"})

Out == rendered.out
ImageAt == {i \in 1..Len(Out) : IsImage(Out[i])}
NewlineAt == {i \in 1..Len(Out) : Out[i].k = "nl"}

\* the image declares `cols` columns and `rows` rows
DeclaresExtent(tok, cols, rows) ==
    IF tok.k = "file"
    THEN Declares(tok, "width", ToString(cols)) /\ Declares(tok, "height", ToString(rows))
    ELSE Declares(tok, "c", ToString(cols)) /\ Declares(tok, "r", ToString(rows))

\* C13: Lines method, both protocols, every vendor, r >= 1: the output holds
\* exactly r image transmissions, r - 1 newlines, one newline between each
\* two consecutive transmissions, and every transmission declares c columns
\* and one row.
C13_LinesOnePerRow ==
    rpc = "rendered" /\ request.method = LINES =>
        /\ Cardinality(ImageAt) = request.r
        /\ Cardinality(NewlineAt) + 1 = request.r
        /\ \A i, j \in ImageAt :
              i < j /\ (\A m \in ImageAt : ~(i < m /\ m < j))
                 => Cardinality({n \in NewlineAt : i < n /\ n < j}) = 1
        /\ \A i \in ImageAt : DeclaresExtent(Out[i], request.c, 1)

C13_Witness ==
    /\ rpc = "rendered" /\ request.method = LINES /\ request.r = MaxCells
    /\ request.proto = KITTY /\ request.c = MaxCells
    /\ Cardinality(ImageAt) = MaxCells

\* C14 (as claimed): Whole method, both protocols, every payload size: the
\* whole buffer is emitted as a single escape sequence, whose control data
\* declares the full extent (c columns, r rows; for the graphics protocol
\* also v = the full pixel height).
DataAt == {i \in 1..Len(Out) : IsDataSeq(Out[i])}

C14_FullExtent ==
    \A i \in ImageAt :
        /\ DeclaresExtent(Out[i], request.c, request.r)
        /\ request.proto = KITTY => Declares(Out[i], "v", ToString(rendered.height))

C14_WholeSingleSequence ==
    rpc = "rendered" /\ request.method = WHOLE =>
        /\ Cardinality(DataAt) = 1
        /\ Cardinality(ImageAt) = 1
        /\ C14_FullExtent

\* C14 (amended): the whole buffer is emitted as a single image
\* transmission declaring the full extent: one escape sequence for the inline
\* image protocol; for the graphics protocol the transmission is chunked into
\* max(1, ceil(len / 4096)) escape sequences (len the length of the encoded
\* payload), the first of which declares the extent while the others carry
\* only the m flag.
C14_WholeSingleTransmission ==
    rpc = "rendered" /\ request.method = WHOLE =>
        /\ Cardinality(ImageAt) = 1
        /\ C14_FullExtent
        /\ request.proto = ITERM2 => Cardinality(DataAt) = 1
        /\ request.proto = KITTY =>
              LET text == B64Len(rendered.bands[1] + Len(ZlibHeader))
              IN  /\ Cardinality(DataAt) =
                        IF text = 0 THEN 1 ELSE CeilDiv(text, DefaultChunkSize)
                  /\ \A i \in DataAt \ ImageAt :
                        Out[i].header \in {<<"m", "=", "1">>, <<"m", "=", "0">>}
                  /\ \A i, j \in DataAt :
                        i < j => \A m \in i..j : m \in DataAt

C14_Witness ==
    /\ rpc = "rendered" /\ request.method = WHOLE /\ request.proto = KITTY
    /\ request.c = MaxCells /\ request.r = MaxCells
    /\ Cardinality(DataAt) >= 2

\* C15: KittyImage._render_image, r >= 1: the pixel height transmitted is a
\* multiple of r; in the Lines method there are r bands, each of exactly
\* width * (height / r) * bytes_per_pixel bytes, and together they are the
\* whole pixel buffer with no byte left over.
C15_BandsExact ==
    rpc = "rendered" /\ request.proto = KITTY =>
        LET bpp == BytesPerPixel(request.mode)
            band == rendered.width * (rendered.height \div request.r) * bpp
        IN  /\ rendered.height % request.r = 0
            /\ request.method = LINES =>
                  /\ Len(rendered.bands) = request.r
                  /\ \A i \in 1..Len(rendered.bands) : rendered.bands[i] = band
                  /\ request.r * band = rendered.width * rendered.height * bpp
                  /\ rendered.left = 0

C15_Witness ==
    /\ rpc = "rendered" /\ request.proto = KITTY /\ request.method = LINES
    /\ request.r = MaxCells /\ request.oh = 5 /\ rendered.height > request.oh
    /\ Len(rendered.bands) = MaxCells

\* C16: KittyImage._render_image never upsamples: the pixel width transmitted
\* is at most the native width, and the pixel height at most the native
\* height rounded up to the next multiple of the row extent.
C16_NeverUpsamples ==
    rpc = "rendered" /\ request.proto = KITTY =>
        /\ rendered.width <= request.ow
        /\ rendered.height <= CeilDiv(request.oh, request.r) * request.r

\* C17 (as claimed): both methods, both protocols, every vendor: the output
\* of each of the r rows ends with a cursor advance of exactly c columns.
RowEndAt == {i \in 1..Len(Out) : i = Len(Out) \/ Out[i + 1].k = "nl"}
AdvanceAt == {i \in 1..Len(Out) : Out[i].k \in {"right", "fill"}}

C17_EveryRowAdvances ==
    rpc = "rendered" =>
        /\ Cardinality(RowEndAt) = request.r
        /\ \A i \in RowEndAt : i \in AdvanceAt /\ Out[i].n = request.c

\* C17 (amended): the graphics protocol writes c blanks at the end of each of
\* the r rows; the inline image protocol on konsole declares
\* doNotMoveCursor=1 and ends each of the r rows with a jump of c columns to
\* the right; on iterm2 and wezterm it writes no cursor movement at all and
\* does not declare doNotMoveCursor (the cursor is left to the terminal).
C17_AdvancePerVendor ==
    rpc = "rendered" =>
        /\ request.proto = KITTY =>
              /\ Cardinality(RowEndAt) = request.r
              /\ \A i \in RowEndAt : Out[i].k = "fill" /\ Out[i].n = request.c
        /\ request.proto = ITERM2 /\ request.term = Chars_konsole =>
              /\ Cardinality(RowEndAt) = request.r
              /\ \A i \in RowEndAt : Out[i].k = "right" /\ Out[i].n = request.c
              /\ \A i \in ImageAt : Declares(Out[i], "doNotMoveCursor", "1")
        /\ request.proto = ITERM2 /\ request.term # Chars_konsole =>
              /\ AdvanceAt = {}
              /\ \A i \in ImageAt : ~HasKey(Out[i], "doNotMoveCursor")

C17_Witness ==
    /\ rpc = "rendered" /\ request.proto = ITERM2 /\ request.term = Chars_konsole
    /\ request.method = WHOLE /\ request.r = MaxCells
    /\ Cardinality(RowEndAt) = MaxCells

\* C19: Kitty rendering.  With z_index None every image transmission (r of
\* them in the Lines method, one in the Whole method) comes directly after
\* the clear: delete, save cursor, c columns right, delete, restore cursor;
\* every save is followed by its restore with no newline in between; the z
\* key is not emitted.  With an integer z_index no delete, save or restore
\* is written and every transmission declares z=<value>.
DeleteAt == {i \in 1..Len(Out) : Out[i].k = "gfx" /\ Declares(Out[i], "a", "d")}
SaveAt == {i \in 1..Len(Out) : Out[i].k = "save"}
RestoreAt == {i \in 1..Len(Out) : Out[i].k = "restore"}

C19_ClearBeforeEveryDraw ==
    rpc = "rendered" /\ request.proto = KITTY =>
        /\ Cardinality(ImageAt) = IF request.method = LINES THEN request.r ELSE 1
        /\ request.z = Nil =>
              /\ \A i \in ImageAt :
                    /\ i > 5
                    /\ Out[i - 5].k = "gfx" /\ Out[i - 5].header = <<"a", "=", "d", ",", "d", "=", "c">>
                    /\ Out[i - 4].k = "save"
                    /\ Out[i - 3].k = "right" /\ Out[i - 3].n = request.c
                    /\ Out[i - 2].k = "gfx" /\ Out[i - 2].header = <<"a", "=", "d", ",", "d", "=", "c">>
                    /\ Out[i - 1].k = "restore"
                    /\ ~HasKey(Out[i], "z")
              /\ Cardinality(SaveAt) = Cardinality(RestoreAt)
              /\ \A i \in SaveAt : \E j \in RestoreAt :
                    /\ i < j
                    /\ \A m \in (i + 1)..(j - 1) : m \notin SaveAt \cup NewlineAt
        /\ request.z # Nil =>
              /\ DeleteAt = {} /\ SaveAt = {} /\ RestoreAt = {}
              /\ \A i \in ImageAt : Declares(Out[i], "z", ToString(request.z[1]))

C19_Witness ==
    /\ rpc = "rendered" /\ request.proto = KITTY /\ request.method = LINES
    /\ request.z = Nil /\ request.r = MaxCells
    /\ Cardinality(SaveAt) = MaxCells

\* C18: a style format specification is accepted only if it is the parent
\* part followed by an optional z token (z, or z and a signed decimal
\* integer) and nothing else: any character after the z token is a format
\* error; z<n> gives z_index = n, a bare z gives z_index = None; a z_index
\* outside -2^31 <= n < 2^31 is a style argument error.
FromZ ==
    LET zs == {i \in 1..Len(fmt_spec) : fmt_spec[i] = "z"}
    IN  IF zs = {} THEN <<>>
        ELSE Slice(fmt_spec, CHOOSE i \in zs : \A j \in zs : i <= j, Len(fmt_spec))

IsSignedDigits(s) ==
    LET ds == IF s # <<>> /\ s[1] = "-" THEN Tail(s) ELSE s
    IN  ds # <<>> /\ \A i \in 1..Len(ds) : ds[i] \in Digits

IsZToken(s) == s # <<>> /\ s[1] = "z" /\ (Len(s) = 1 \/ IsSignedDigits(Tail(s)))

ZValue(x) == IF x.neg THEN 0 - DecimalValue(x.mag) ELSE DecimalValue(x.mag)

C18_FormatSpecGrammar ==
    fpc = "checked" =>
        /\ fmt_result.status = "ok" => FromZ = <<>> \/ IsZToken(FromZ)
        /\ FromZ # <<>> /\ ~IsZToken(FromZ) => fmt_result.status = "format_error"
        /\ fmt_result.status = "ok" /\ FromZ = <<"z">>
              => fmt_result.has_z /\ fmt_result.z_index.none
        /\ fmt_result.status = "ok" /\ IsZToken(FromZ) /\ Len(FromZ) \in 2..9
              => /\ fmt_result.has_z /\ ~fmt_result.z_index.none
                 /\ ZValue(fmt_result.z_index) = ParseInt(Tail(FromZ)).val
        /\ fmt_spec \in {<<"z">> \o Two31,
                         <<"z", "-", "2", "1", "4", "7", "4", "8", "3", "6", "4", "9">>}
              => fmt_result.status = "style_arg_error"
        /\ fmt_spec \in {<<"z", "-">> \o Two31,
                         <<"z", "2", "1", "4", "7", "4", "8", "3", "6", "4", "7">>}
              => fmt_result.status = "ok"

\* C21: after _supported was reset to None and is_supported has probed again,
\* the value it returns and the cached vendor name and versions depend only
\* on what the new probe read: a version cached by an earlier detection never
\* makes the new result supported, and no cached vendor or version outlives
\* a new result that is not supported.
Reprobed(t) == pc[t] = "ret" /\ invalidated > 0 /\ entry[t] = None /\ queries[t] > 0

\* the versions the new probe alone gives: none unless the version query was
\* made, else those of its response on top of the empty class defaults
FreshVersions(t) ==
    IF queries[t] = 2 THEN KittyVersions(response[t], <<>>, <<>>)
    ELSE [raised |-> FALSE, kitty |-> <<>>, konsole |-> <<>>]

C21_StaleNeverSupports ==
    \A t \in Threads :
        Reprobed(t) /\ cls[t] = KITTY /\ Returned(t) = x_True =>
            KittyVersionResolve(FreshVersions(t).kitty, FreshVersions(t).konsole) = x_True

C21_StaleNeverSurvives ==
    \A t \in Threads :
        Reprobed(t) /\ Returned(t) # x_True =>
            /\ cls[t] = KITTY =>
                  /\ KITTY_VERSION = FreshVersions(t).kitty
                  /\ KONSOLE_VERSION = FreshVersions(t).konsole
            /\ cls[t] = ITERM2 => TERM = <<>> /\ TERM_VERSION = <<>>

C21_FreshProbeOnly == C21_StaleNeverSupports /\ C21_StaleNeverSurvives

====
